---- MODULE Spec2Model ----
(***************************************************************************)
(* A model of CaptureDevice (src/src/CaptureDevice.cpp): the session       *)
(* lifecycle (init / finish / startCapturing / stopCapturing), the capture *)
(* thread, and the consumer operations lockFirstNBuffers, unlock and       *)
(* newerBuffersAvailable on the time-sorted deque of buffer pointers.      *)
(*                                                                         *)
(* A Buffer is identified by its address.  time and readerCount are the    *)
(* memory behind every address, allocated or not: finish() frees the       *)
(* Buffer objects but leaves the pointers to them in                       *)
(* m_timelySortedBuffers, and a later init() may be handed the same        *)
(* addresses again.                                                        *)
(***************************************************************************)
EXTENDS Integers, Sequences, FiniteSets, TLC

(* ------------------------------ bounds -------------------------------- *)
\* largest buffersCount handed to init()
MaxBuffers == 3
\* addresses the allocator can hand out beyond MaxBuffers
ExtraAddr == 1
\* number of consumer threads
NumConsumers == 1
\* most references a consumer holds at a time
MaxHeld == 2
\* clock readings are (0..MaxSec) x (0..MaxNsec)
MaxSec == 1
MaxNsec == 1
\* successful init() calls on the session object
MaxInits == 2
\* width of unsigned int in bits (32 in the build, scaled down)
UIntBits == 5
\* clock readings of determineCapturePeriod are (0..MaxPeriodSec) x (0..MaxNsec)
MaxPeriodSec == 2
\* most clock readings determineCapturePeriod records
MaxSamples == 4
\* largest secondsToIterate
MaxSeconds == 1
\* how far below 0 a reader count is followed (a build without assert)
MaxDrift == 2

(* ------------------------- program constants -------------------------- *)
\* assert(buffersCount > 1)
MinBuffers == 2
\* m_fileDescriptor of a session without a device
NoFd == -1
\* the descriptor v4l2_open returns
OpenFd == 3
\* numeric_limits<time_t>::min(): a second below every clock reading
TimeTMin == -1
\* m_captureThread == 0 / no Buffer
NoBuf == 0

Addr == 1..(MaxBuffers + ExtraAddr)
Consumers == 1..NumConsumers
ClockTimes == (0..MaxSec) \X (0..MaxNsec)
\* clock ticks to the second: tv_nsec is a multiple of 1000000000 / TicksPerSec
TicksPerSec == MaxNsec + 1
PeriodTimes == (0..MaxPeriodSec) \X (0..MaxNsec)
Sentinel == <<TimeTMin, 0>>
Times == ClockTimes \cup {Sentinel}

SelectResults == {"ready", "eintr", "timeout", "error"}
ReadResults == {"full", "short", "error"}
InitOutcomes == {"ok", "clock", "stat", "notchr", "open", "querycap",
                 "nocapture", "noreadwrite", "sfmt"}

(* ------------------- the negotiated format (init) -------------------- *)
\* unsigned int / __u32 arithmetic wraps at 2^UIntBits
UInt(x) == x % (2 ^ UIntBits)

\* fmt.fmt.pix after memset(&fmt, 0, ...)
NoFormat == [width |-> 0, height |-> 0, bytesperline |-> 0, sizeimage |-> 0]

\* (mutant) the driver's bytesperline is taken as it is
BytesPerLine_Trusted(f) == f.bytesperline

\* min = width * 2; if (bytesperline < min) bytesperline = min;
BytesPerLine(f) ==
    LET min == UInt(f.width * 2)
    IN  IF f.bytesperline < min THEN min ELSE f.bytesperline

\* min = bytesperline * height; if (sizeimage < min) sizeimage = min;
SizeImage(f) ==
    LET min == UInt(BytesPerLine(f) * f.height)
    IN  IF f.sizeimage < min THEN min ELSE f.sizeimage

\* what m_bufferSize may hold before the first init() or finish()
UninitSizes == {0, 2 ^ UIntBits - 1}

\* the request and the driver's answer of a device that grants the request
GrantedRequest == <<1, 1>>
GrantedReply == [width |-> 1, height |-> 1, bytesperline |-> 2, sizeimage |-> 2]

\* what callers ask for and what drivers answer: sizes that fit, sizes that
\* are too small, and sizes whose products wrap
Widths == {1, 2, 2 ^ (UIntBits - 1) + 1}
Heights == {1, 2, 3}
Strides == {0, 2, 4, 2 ^ UIntBits - 2}
Sizes == {0, 4, 12, 2 ^ UIntBits - 1}
Requests == Widths \X Heights
Replies == [width : Widths, height : Heights, bytesperline : Strides,
            sizeimage : Sizes]

\* the pair determineCapturePeriod returns, as exact fractions: first is
\* meanN / intervals, second is sqrt(squaresN2 / intervals^3), in clock
\* ticks (TicksPerSec to the second)
NoPeriod == [intervals |-> 0, meanN |-> 0, squaresN2 |-> 0]

VARIABLES
    process,      \* "running", or how the process ended (abort, failed assert, ...)
    ndebug,       \* the build: TRUE when assert() is compiled out
    fd,           \* m_fileDescriptor
    buffers,      \* m_buffers: the addresses of the Buffer objects, front first
    sorted,       \* m_timelySortedBuffers: Buffer pointers, front first
    time,         \* Buffer::time behind every address
    readerCount,  \* Buffer::readerCount behind every address
    mutex,        \* m_timelySortedBuffersMutex: "free", "cap" (capture thread), "dead"
    flag,         \* m_captureThreadCancellationFlag
    capPc,        \* the capture thread: "none" (m_captureThread == 0), its position, "exited"
    claimed,      \* captureThread's local `buffer`
    readlen,      \* captureThread's local `readlen`
    clock,        \* the last reading of the configured clock
    ctlPc,        \* the controlling thread: "idle", or joining in stopCapturing()
    pc,           \* per consumer: "idle" or the member function it is in
    held,         \* per consumer: the pointers it got from lockFirstNBuffers and still has
    n,            \* per consumer: lockFirstNBuffers' argument
    refs,         \* per consumer: unlock's argument
    newerThan,    \* per consumer: newerBuffersAvailable's argument
    it,           \* per consumer: the entry newerBuffersAvailable's `it` was set to
    itStale,      \* per consumer: that iterator was invalidated since
    ret,          \* per consumer: newerBuffersAvailable's last return value
    inits,        \* successful init() calls so far
    bufferSize,   \* m_bufferSize
    request,      \* init()'s arguments <<captureWidth, captureHeight>>
    fmt,          \* init()'s local fmt.fmt.pix as VIDIOC_S_FMT returned it
    secondsToIterate, \* determineCapturePeriod's argument
    times,        \* determineCapturePeriodThread's local `times`
    periodPc,     \* determineCapturePeriod: "idle", or "loop" inside its thread
    period        \* what determineCapturePeriod returned last

vars == <<process, ndebug, fd, buffers, sorted, time, readerCount, mutex, flag,
          capPc, claimed, readlen, clock, ctlPc, pc, held, n, refs, newerThan,
          it, itStale, ret, inits, bufferSize, request, fmt, secondsToIterate,
          times, periodPc, period>>

formatVars == <<bufferSize, request, fmt>>
periodVars == <<secondsToIterate, times, periodPc, period>>
sessionVars == <<fd, buffers, inits, formatVars, periodVars>>
captureVars == <<capPc, claimed, readlen, clock>>
consumerVars == <<pc, held, n, refs, newerThan, it, itStale, ret>>
poolVars == <<sorted, time, readerCount, mutex>>

(* ------------------------------ helpers ------------------------------- *)
Range(s) == {s[i] : i \in 1..Len(s)}

Reverse(s) == [i \in 1..Len(s) |-> s[Len(s) + 1 - i]]

Min(a, b) == IF a < b THEN a ELSE b

\* the number of positions of s that hold x
Occurrences(s, x) == Cardinality({i \in 1..Len(s) : s[i] = x})

\* s without the first occurrence of x
RECURSIVE RemoveOne(_, _)
RemoveOne(s, x) ==
    IF s = <<>> THEN <<>>
    ELSE IF Head(s) = x THEN Tail(s)
    ELSE <<Head(s)>> \o RemoveOne(Tail(s), x)

\* s without one occurrence of each entry of r
RECURSIVE RemoveAll(_, _)
RemoveAll(s, r) ==
    IF r = <<>> THEN s ELSE RemoveAll(RemoveOne(s, Head(r)), Tail(r))

\* sequences of k distinct addresses of S
InjectiveSeqs(S, k) ==
    {s \in [1..k -> S] : \A i, j \in 1..k : i # j => s[i] # s[j]}

\* increasing sequences among them
IsIncreasing(s) == \A i, j \in 1..Len(s) : i < j => s[i] < s[j]

\* lexicographic order on (tv_sec, tv_nsec)
LexLess(a, b) == a[1] < b[1] \/ (a[1] = b[1] /\ a[2] < b[2])
LexLeq(a, b) == a = b \/ LexLess(a, b)

\* a pointer to freed memory
Dangling(a) == a \notin Range(buffers)

Running == process = "running"

\* The process ends (abort(), a failed assert, an uncaught exception, a
\* fault): nothing of its state is left but how it ended.
Abort(how) ==
    /\ process' = how
    /\ fd' = NoFd
    /\ buffers' = <<>>
    /\ sorted' = <<>>
    /\ time' = [a \in Addr |-> Sentinel]
    /\ readerCount' = [a \in Addr |-> 0]
    /\ mutex' = "free"
    /\ flag' = FALSE
    /\ capPc' = "none"
    /\ claimed' = NoBuf
    /\ readlen' = "none"
    /\ clock' = <<0, 0>>
    /\ ctlPc' = "idle"
    /\ pc' = [c \in Consumers |-> "idle"]
    /\ held' = [c \in Consumers |-> <<>>]
    /\ n' = [c \in Consumers |-> 0]
    /\ refs' = [c \in Consumers |-> <<>>]
    /\ newerThan' = [c \in Consumers |-> Sentinel]
    /\ it' = [c \in Consumers |-> NoBuf]
    /\ itStale' = [c \in Consumers |-> FALSE]
    /\ ret' = [c \in Consumers |-> 0]
    /\ inits' = 0
    /\ bufferSize' = 0
    /\ request' = <<0, 0>>
    /\ fmt' = NoFormat
    /\ secondsToIterate' = 0
    /\ times' = <<>>
    /\ periodPc' = "idle"
    /\ period' = NoPeriod
    /\ UNCHANGED ndebug

(* ------------------------------- Init --------------------------------- *)
\* CaptureDevice::CaptureDevice(): no device, no capture thread, no buffers.
\* The constructor does not initialise m_bufferSize.
Init ==
    /\ process = "running"
    /\ ndebug \in BOOLEAN
    /\ fd = NoFd
    /\ buffers = <<>>
    /\ sorted = <<>>
    /\ time = [a \in Addr |-> Sentinel]
    /\ readerCount = [a \in Addr |-> 0]
    /\ mutex = "free"
    /\ flag = FALSE
    /\ capPc = "none"
    /\ claimed = NoBuf
    /\ readlen = "none"
    /\ clock = <<0, 0>>
    /\ ctlPc = "idle"
    /\ pc = [c \in Consumers |-> "idle"]
    /\ held = [c \in Consumers |-> <<>>]
    /\ n = [c \in Consumers |-> 0]
    /\ refs = [c \in Consumers |-> <<>>]
    /\ newerThan = [c \in Consumers |-> Sentinel]
    /\ it = [c \in Consumers |-> NoBuf]
    /\ itStale = [c \in Consumers |-> FALSE]
    /\ ret = [c \in Consumers |-> 0]
    /\ inits = 0
    /\ bufferSize \in UninitSizes
    /\ request = <<0, 0>>
    /\ fmt = NoFormat
    /\ secondsToIterate = 0
    /\ times = <<>>
    /\ periodPc = "idle"
    /\ period = NoPeriod

(* ----------------------- lifecycle: init, finish ---------------------- *)
\* The addresses malloc may return for the Buffer objects of one init():
\* k distinct free addresses.  While no pointer to freed memory exists all
\* choices are the same up to renaming, and the lowest addresses are taken.
Allocations(k) ==
    LET free == Addr \ Range(buffers)
        all == InjectiveSeqs(free, k)
    IN  IF sorted = <<>>
        THEN {s \in all : Range(s) = 1..k /\ IsIncreasing(s)}
        ELSE {s \in all : IsIncreasing(s)}

\* (mutant) the descriptor is left as it is
ClosedFd_Kept(f) == f

\* if (m_fileDescriptor != -1) { v4l2_close(...); m_fileDescriptor = -1; }
ClosedFd(f) == IF f # NoFd THEN NoFd ELSE f

\* (mutant) m_buffers is not cleared
FreedBuffers_Kept(b) == b

\* if (m_buffers.empty() == false) { free every buffer; m_buffers.clear(); }
FreedBuffers(b) == IF b # <<>> THEN <<>> ELSE b

\* finish(), after the capture thread is gone, on a session whose descriptor
\* is f: close the device, free the Buffer objects, clear m_buffers and set
\* m_bufferSize to 0.  m_timelySortedBuffers is not touched.
FinishRest(f) ==
    /\ fd' = ClosedFd(f)
    /\ buffers' = FreedBuffers(buffers)
    /\ bufferSize' = 0
    /\ UNCHANGED <<sorted, time, readerCount>>

\* m_fileDescriptor when init() reaches a failure path: v4l2_open is called
\* after the clock and the file checks
OpenedFd(outcome) ==
    IF outcome \in {"clock", "stat", "notchr", "open"} THEN NoFd ELSE OpenFd

\* init() that fails: every failure path is `finish(); return false;`
\* (no capture thread exists: init asserts m_fileDescriptor == -1).
InitFail(outcome, req) ==
    /\ Running /\ ctlPc = "idle" /\ fd = NoFd /\ capPc = "none"
    /\ outcome # "ok"
    /\ request' = req
    /\ flag' = FALSE
    /\ FinishRest(OpenedFd(outcome))
    /\ UNCHANGED <<process, ndebug, mutex, captureVars, ctlPc, consumerVars, inits,
                   fmt, periodVars>>

\* init() that succeeds with buffersCount = k and the Buffer objects at addrs:
\* each is pushed to the front of m_buffers with the minimum time and no
\* readers, and its address is pushed to the back of m_timelySortedBuffers.
\* A push_back invalidates every iterator into the deque.  The caller asked
\* for req, the driver answered VIDIOC_S_FMT with reply, and the buffers get
\* the size of the checked reply.
InitOk(k, addrs, req, reply) ==
    /\ Running /\ ctlPc = "idle" /\ fd = NoFd /\ capPc = "none"
    /\ request' = req
    /\ fmt' = reply
    /\ bufferSize' = SizeImage(reply)
    /\ flag' = FALSE
    /\ fd' = OpenFd
    /\ buffers' = Reverse(addrs)
    /\ time' = [a \in Addr |-> IF a \in Range(addrs) THEN Sentinel ELSE time[a]]
    /\ readerCount' = [a \in Addr |-> IF a \in Range(addrs) THEN 0 ELSE readerCount[a]]
    /\ sorted' = sorted \o addrs
    /\ itStale' = [c \in Consumers |-> itStale[c] \/ pc[c] = "newerBuffersAvailable"]
    /\ inits' = inits + 1
    /\ UNCHANGED <<process, ndebug, mutex, captureVars, ctlPc, pc, held, n, refs,
                   newerThan, it, ret, periodVars>>

\* finish() on a session without a capture thread
FinishNoThread ==
    /\ Running /\ ctlPc = "idle" /\ capPc = "none"
    /\ FinishRest(fd)
    /\ UNCHANGED <<process, ndebug, mutex, flag, captureVars, ctlPc, consumerVars, inits,
                   request, fmt, periodVars>>

\* finish() on a session with a capture thread: stopCapturing() first, which
\* sets the flag and blocks in join()
FinishStop ==
    /\ Running /\ ctlPc = "idle" /\ capPc # "none"
    /\ flag' = TRUE
    /\ ctlPc' = "finish_join"
    /\ UNCHANGED <<process, ndebug, sessionVars, poolVars, captureVars, consumerVars>>

(* --------------- lifecycle: startCapturing, stopCapturing -------------- *)
\* startCapturing(): assert(m_captureThread == 0); the thread starts at the
\* top of captureThread's while loop.  Called on an initialised session.
StartCapturing ==
    /\ Running /\ ctlPc = "idle" /\ capPc = "none" /\ fd # NoFd
    /\ capPc' = "while"
    /\ UNCHANGED <<process, ndebug, sessionVars, poolVars, flag, claimed, readlen,
                   clock, ctlPc, consumerVars>>

\* stopCapturing(): nothing without a thread; else set the flag and join()
StopCapturing ==
    /\ Running /\ ctlPc = "idle"
    /\ IF capPc = "none"
       THEN UNCHANGED <<flag, ctlPc>>
       ELSE flag' = TRUE /\ ctlPc' = "stop_join"
    /\ UNCHANGED <<process, ndebug, sessionVars, poolVars, captureVars, consumerVars>>

\* join() returns once the thread function has returned; stopCapturing()
\* clears the flag and deletes the thread object.
StopJoined ==
    /\ Running /\ ctlPc = "stop_join" /\ capPc = "exited"
    /\ flag' = FALSE
    /\ capPc' = "none"
    /\ ctlPc' = "idle"
    /\ UNCHANGED <<process, ndebug, sessionVars, poolVars, claimed, readlen, clock,
                   consumerVars>>

\* the same inside finish(), which then closes the device and frees the buffers
FinishJoined ==
    /\ Running /\ ctlPc = "finish_join" /\ capPc = "exited"
    /\ flag' = FALSE
    /\ capPc' = "none"
    /\ ctlPc' = "idle"
    /\ FinishRest(fd)
    /\ UNCHANGED <<process, ndebug, mutex, claimed, readlen, clock, consumerVars, inits,
                   request, fmt, periodVars>>

(* --------------------------- captureThread ---------------------------- *)
\* while (camera->m_captureThreadCancellationFlag == false): the only place
\* the flag is read.  A thread that returns while it owns the mutex leaves
\* the mutex locked for good.
CaptureWhile ==
    /\ Running /\ capPc = "while"
    /\ IF flag
       THEN /\ capPc' = "exited"
            /\ mutex' = IF mutex = "cap" THEN "dead" ELSE mutex
       ELSE /\ capPc' = "select"
            /\ UNCHANGED mutex
    /\ UNCHANGED <<process, ndebug, sessionVars, sorted, time, readerCount, flag,
                   claimed, readlen, clock, ctlPc, consumerVars>>

\* select(): an error other than EINTR aborts, a timeout is assert(0); ready
\* and EINTR (and a timeout without assert) go on to the lock.
CaptureSelect(sel) ==
    /\ Running /\ capPc = "select"
    /\ IF sel = "error" THEN Abort("abort_select")
       ELSE IF sel = "timeout" /\ ~ndebug THEN Abort("assert_select_timeout")
       ELSE /\ capPc' = "lock"
            /\ UNCHANGED <<process, ndebug, sessionVars, poolVars, flag, claimed,
                           readlen, clock, ctlPc, consumerVars>>

\* sortedBuffers.back(), pop_back() and push_front()
Back(seq) == seq[Len(seq)]

\* (mutant) the claimed entry stays in the deque
PoppedBack_Kept(seq) == seq

PoppedBack(seq) == SubSeq(seq, 1, Len(seq) - 1)

\* (mutant) the filled buffer is put back where it was taken
PushedFront_AtBack(seq, b) == seq \o <<b>>

PushedFront(seq, b) == <<b>> \o seq

\* (mutant) the back entry is taken whatever its reader count
BackIsWritable_Always == TRUE

\* the test of the back entry: it has no readers
BackIsWritable == ~(readerCount[Back(sorted)] > 0)

\* sortedBuffersMutex.lock() on the free mutex, then: if the back entry has
\* readers, `continue` (the mutex is not unlocked on this path); else keep
\* the back entry in `buffer`, pop it and unlock.
CaptureClaim ==
    /\ Running /\ capPc = "lock" /\ mutex = "free"
    /\ sorted # <<>>
    /\ IF BackIsWritable
       THEN /\ claimed' = Back(sorted)
            /\ sorted' = PoppedBack(sorted)
            /\ capPc' = "stamp"
            /\ UNCHANGED mutex
       ELSE /\ mutex' = "cap"
            /\ capPc' = "while"
            /\ UNCHANGED <<claimed, sorted>>
    /\ UNCHANGED <<process, ndebug, sessionVars, time, readerCount, flag, readlen,
                   clock, ctlPc, consumerVars>>

\* sortedBuffersMutex.lock() by the thread that owns the mutex is undefined
\* for std::mutex: the thread blocks for ever (no step), or lock() reports
\* the deadlock by an exception nobody catches, which ends the process.
CaptureRelock ==
    /\ Running /\ capPc = "lock" /\ mutex = "cap"
    /\ Abort("terminate_relock")

\* clock_gettime(clockId, &(buffer->time)), outside the lock; the clock does
\* not run backwards.
CaptureStamp(t) ==
    /\ Running /\ capPc = "stamp"
    /\ LexLeq(clock, t)
    /\ clock' = t
    /\ time' = [time EXCEPT ![claimed] = t]
    /\ capPc' = "read"
    /\ UNCHANGED <<process, ndebug, sessionVars, sorted, readerCount, mutex, flag,
                   claimed, readlen, ctlPc, consumerVars>>

\* readlen = v4l2_read(...): only -1 is looked at, and that is assert(0)
CaptureRead(r) ==
    /\ Running /\ capPc = "read"
    /\ IF r = "error" /\ ~ndebug THEN Abort("assert_read")
       ELSE /\ readlen' = r
            /\ capPc' = "publish"
            /\ UNCHANGED <<process, ndebug, sessionVars, poolVars, flag, claimed,
                           clock, ctlPc, consumerVars>>

\* lock(); sortedBuffers.push_front(buffer); unlock().  A push_front
\* invalidates every iterator into the deque.
CapturePublish ==
    /\ Running /\ capPc = "publish" /\ mutex = "free"
    /\ sorted' = PushedFront(sorted, claimed)
    /\ claimed' = NoBuf
    /\ readlen' = "none"
    /\ capPc' = "while"
    /\ itStale' = [c \in Consumers |-> itStale[c] \/ pc[c] = "newerBuffersAvailable"]
    /\ UNCHANGED <<process, ndebug, sessionVars, time, readerCount, mutex, flag,
                   clock, ctlPc, pc, held, n, refs, newerThan, it, ret>>

(* ------------------------- lockFirstNBuffers -------------------------- *)
\* (mutant) the loop runs once too often: a <= n
FirstN_OneTooMany(seq, k) == SubSeq(seq, 1, Min(k + 1, Len(seq)))

\* the entries the for loop visits: the first min(k, size) of the deque
FirstN(seq, k) == SubSeq(seq, 1, Min(k, Len(seq)))

\* (mutant) the visited entries are returned without being counted
Incremented_Skipped(rc, visited) == rc

\* ++(*it)->readerCount for every visited entry
Incremented(rc, visited) ==
    [a \in Addr |-> rc[a] + Occurrences(visited, a)]

\* a consumer calls lockFirstNBuffers(k) and reaches the lock()
LockFirstNCall(c, k) ==
    /\ Running /\ pc[c] = "idle"
    /\ Len(held[c]) + k <= MaxHeld
    /\ pc' = [pc EXCEPT ![c] = "lockFirstNBuffers"]
    /\ n' = [n EXCEPT ![c] = k]
    /\ ret' = [ret EXCEPT ![c] = 0]
    /\ newerThan' = [newerThan EXCEPT ![c] = Sentinel]
    /\ UNCHANGED <<process, ndebug, sessionVars, poolVars, flag, captureVars, ctlPc,
                   held, refs, it, itStale>>

\* lock(); the loop; unlock(); return ret
LockFirstNBuffers(c) ==
    /\ Running /\ pc[c] = "lockFirstNBuffers" /\ mutex = "free"
    /\ readerCount' = Incremented(readerCount, FirstN(sorted, n[c]))
    /\ held' = [held EXCEPT ![c] = @ \o FirstN(sorted, n[c])]
    /\ pc' = [pc EXCEPT ![c] = "idle"]
    /\ n' = [n EXCEPT ![c] = 0]
    /\ UNCHANGED <<process, ndebug, sessionVars, sorted, time, mutex, flag,
                   captureVars, ctlPc, refs, newerThan, it, itStale, ret>>

(* ------------------------------- unlock ------------------------------- *)
\* (mutant) the matching entries are found but not decremented
Decremented_Skipped(rc, released, seq) == rc

\* --((*it2)->readerCount) for every pair of an argument entry and a deque
\* entry that are the same pointer
Decremented(rc, released, seq) ==
    [a \in Addr |-> rc[a] - Occurrences(released, a) * Occurrences(seq, a)]

\* what a consumer hands to unlock: all it holds, or one of the pointers
Releasable(c) ==
    {held[c]} \cup {<<held[c][i]>> : i \in 1..Len(held[c])}

\* a consumer calls unlock(r) and reaches the lock()
UnlockCall(c, r) ==
    /\ Running /\ pc[c] = "idle"
    /\ r # <<>>
    /\ pc' = [pc EXCEPT ![c] = "unlock"]
    /\ refs' = [refs EXCEPT ![c] = r]
    /\ ret' = [ret EXCEPT ![c] = 0]
    /\ newerThan' = [newerThan EXCEPT ![c] = Sentinel]
    /\ UNCHANGED <<process, ndebug, sessionVars, poolVars, flag, captureVars, ctlPc,
                   held, n, it, itStale>>

\* lock(); the loops; unlock().  The counts only fall, so the assert fails
\* at some point exactly if some count ends below 0.
Unlock(c) ==
    /\ Running /\ pc[c] = "unlock" /\ mutex = "free"
    /\ LET rc == Decremented(readerCount, refs[c], sorted)
       IN  IF ~ndebug /\ \E a \in Addr : rc[a] < 0
           THEN Abort("assert_readerCount")
           ELSE /\ \A a \in Addr : rc[a] >= 0 - MaxDrift
                /\ readerCount' = rc
                /\ held' = [held EXCEPT ![c] = RemoveAll(@, refs[c])]
                /\ pc' = [pc EXCEPT ![c] = "idle"]
                /\ refs' = [refs EXCEPT ![c] = <<>>]
                /\ UNCHANGED <<process, ndebug, sessionVars, sorted, time, mutex,
                               flag, captureVars, ctlPc, n, newerThan, it, itStale, ret>>

(* ------------------------ newerBuffersAvailable ----------------------- *)
\* (mutant) tv_nsec compared with < : an equal time counts as newer
NotNewer_Strict(t, than) ==
    (t[1] < than[1]) \/ ((t[1] = than[1]) /\ (t[2] < than[2]))

\* the loop's break condition: the entry's time is not after newerThan
NotNewer(t, than) ==
    (t[1] < than[1]) \/ ((t[1] = than[1]) /\ (t[2] <= than[2]))

\* the loop: count entries from the front up to the first one that breaks
RECURSIVE NewerWalk(_, _, _)
NewerWalk(seq, tm, than) ==
    IF seq = <<>> THEN 0
    ELSE IF NotNewer(tm[Head(seq)], than) THEN 0
    ELSE 1 + NewerWalk(Tail(seq), tm, than)

\* a consumer calls newerBuffersAvailable(than): `it` is set to begin()
\* before the mutex is locked
NewerBegin(c, than) ==
    /\ Running /\ pc[c] = "idle"
    /\ pc' = [pc EXCEPT ![c] = "newerBuffersAvailable"]
    /\ newerThan' = [newerThan EXCEPT ![c] = than]
    /\ it' = [it EXCEPT ![c] = IF sorted = <<>> THEN NoBuf ELSE sorted[1]]
    /\ itStale' = [itStale EXCEPT ![c] = FALSE]
    /\ ret' = [ret EXCEPT ![c] = 0]
    /\ UNCHANGED <<process, ndebug, sessionVars, poolVars, flag, captureVars, ctlPc,
                   held, n, refs>>

\* the entries from the first one that is b on
RECURSIVE From(_, _)
From(seq, b) ==
    IF seq = <<>> \/ Head(seq) = b THEN seq ELSE From(Tail(seq), b)

\* What the walk returns.  With a valid iterator it starts at the front.  An
\* iterator invalidated by a push still points at the entry it was set to,
\* and the walk starts there, behind the pushed entries; if that entry has
\* left the deque, or the iterator was end(), any count may come out.
WalkResults(c) ==
    IF ~itStale[c] THEN {NewerWalk(sorted, time, newerThan[c])}
    ELSE IF it[c] \in Range(sorted)
         THEN {NewerWalk(From(sorted, it[c]), time, newerThan[c])}
         ELSE 0..Len(sorted)

\* lock(); the walk; unlock(); return ret
NewerBuffersAvailable(c, r) ==
    /\ Running /\ pc[c] = "newerBuffersAvailable" /\ mutex = "free"
    /\ ret' = [ret EXCEPT ![c] = r]
    /\ pc' = [pc EXCEPT ![c] = "idle"]
    /\ it' = [it EXCEPT ![c] = NoBuf]
    /\ itStale' = [itStale EXCEPT ![c] = FALSE]
    /\ UNCHANGED <<process, ndebug, sessionVars, poolVars, flag, captureVars, ctlPc,
                   held, n, refs, newerThan>>

(* -------------------------- use after free ---------------------------- *)
\* Reading or writing a Buffer through a pointer to freed memory is
\* undefined: the access finds the memory as it was left (the actions above)
\* or the process ends here.
DanglingAccess ==
    \/ /\ capPc = "lock" /\ mutex = "free" /\ sorted # <<>>
       /\ Dangling(sorted[Len(sorted)])
    \/ \E c \in Consumers :
          /\ mutex = "free"
          /\ \/ /\ pc[c] = "lockFirstNBuffers"
                /\ \E a \in Range(FirstN(sorted, n[c])) : Dangling(a)
             \/ /\ pc[c] = "unlock"
                /\ \E a \in Range(refs[c]) \cap Range(sorted) : Dangling(a)
             \/ /\ pc[c] = "newerBuffersAvailable"
                /\ sorted # <<>> /\ Dangling(sorted[1])

UseAfterFree ==
    /\ Running /\ DanglingAccess
    /\ Abort("segv")

(* ----------------------- determineCapturePeriod ----------------------- *)
\* a timespec in clock ticks: tv_sec + tv_nsec / 1000000000.0, times
\* TicksPerSec
Ticks(t) == t[1] * TicksPerSec + t[2]

\* the vector `intervals`: the differences of consecutive entries of ts
Intervals(ts) == [i \in 1..(Len(ts) - 1) |-> Ticks(ts[i + 1]) - Ticks(ts[i])]

\* the first loop: mean += *a
RECURSIVE Added(_)
Added(xs) == IF xs = <<>> THEN 0 ELSE Head(xs) + Added(Tail(xs))

\* the second loop: addedSquares = ((*a - mean) * (*a - mean)), an
\* assignment in every round; acc is addedSquares before the loop.  With
\* mean = sum / size, (*a - mean) * size is *a * size - sum.
RECURSIVE AddedSquares(_, _, _, _)
AddedSquares(xs, size, sum, acc) ==
    IF xs = <<>> THEN acc
    ELSE AddedSquares(Tail(xs), size, sum,
                      (Head(xs) * size - sum) * (Head(xs) * size - sum))

\* lines 644-668: the result for the recorded times ts
PeriodOf(ts) ==
    LET xs == Intervals(ts)
    IN  [intervals |-> Len(xs), meanN |-> Added(xs),
         squaresN2 |-> AddedSquares(xs, Len(xs), Added(xs), 0)]

\* determineCapturePeriod(secs) on an initialised session: the thread starts
\* with an empty `times`, and the caller waits in join()
PeriodCall(secs) ==
    /\ Running /\ ctlPc = "idle" /\ fd # NoFd /\ periodPc = "idle"
    /\ secondsToIterate' = secs
    /\ times' = <<>>
    /\ periodPc' = "loop"
    /\ UNCHANGED <<process, ndebug, fd, buffers, inits, formatVars, poolVars, flag,
                   captureVars, ctlPc, consumerVars, period>>

\* one round of for (;;): append the clock reading t; if the first and the
\* last reading are more than secondsToIterate seconds apart, leave the loop,
\* compute the result and return; else select() and v4l2_read() with the
\* outcomes sel and r (abort on a select error, assert(0) on a timeout and on
\* a read error).
PeriodIterate(t, sel, r) ==
    /\ Running /\ periodPc = "loop"
    /\ Len(times) < MaxSamples
    /\ LexLeq(clock, t)
    /\ LET ts == Append(times, t)
       IN  IF ts[Len(ts)][1] - ts[1][1] > secondsToIterate
           THEN /\ times' = ts
                /\ clock' = t
                /\ period' = PeriodOf(ts)
                /\ periodPc' = "idle"
                /\ UNCHANGED <<process, ndebug, fd, buffers, inits, formatVars,
                               poolVars, flag, capPc, claimed, readlen, ctlPc,
                               consumerVars, secondsToIterate>>
           ELSE IF sel = "error" THEN Abort("abort_select")
           ELSE IF sel = "timeout" /\ ~ndebug THEN Abort("assert_select_timeout")
           ELSE IF r = "error" /\ ~ndebug THEN Abort("assert_read")
           ELSE /\ times' = ts
                /\ clock' = t
                /\ UNCHANGED <<process, ndebug, fd, buffers, inits, formatVars,
                               poolVars, flag, capPc, claimed, readlen, ctlPc,
                               consumerVars, secondsToIterate, periodPc, period>>

(* ------------------------------- Next --------------------------------- *)
\* the steps of the capture thread, with the clock readings T
CaptureNext(T) ==
    \/ CaptureWhile
    \/ \E sel \in SelectResults : CaptureSelect(sel)
    \/ CaptureClaim
    \/ CaptureRelock
    \/ \E t \in T : CaptureStamp(t)
    \/ \E r \in ReadResults : CaptureRead(r)
    \/ CapturePublish

\* the calls of the controlling thread other than a successful init()
ControlNext ==
    \/ \E o \in InitOutcomes : InitFail(o, GrantedRequest)
    \/ FinishNoThread
    \/ FinishStop
    \/ FinishJoined
    \/ StartCapturing
    \/ StopCapturing
    \/ StopJoined

\* lockFirstNBuffers and unlock by the consumers
BorrowNext ==
    \/ \E c \in Consumers : \E k \in 0..MaxBuffers : LockFirstNCall(c, k)
    \/ \E c \in Consumers : LockFirstNBuffers(c)
    \/ \E c \in Consumers : \E r \in Releasable(c) : UnlockCall(c, r)
    \/ \E c \in Consumers : Unlock(c)

\* newerBuffersAvailable by the consumers
NewerNext ==
    \/ \E c \in Consumers : \E than \in Times : NewerBegin(c, than)
    \/ \E c \in Consumers : \E r \in WalkResults(c) : NewerBuffersAvailable(c, r)

\* A session object that is initialised once, and everything that can
\* happen to it.
Next ==
    \/ \E k \in MinBuffers..MaxBuffers : \E addrs \in Allocations(k) :
          inits = 0 /\ InitOk(k, addrs, GrantedRequest, GrantedReply)
    \/ ControlNext
    \/ CaptureNext(ClockTimes)
    \/ BorrowNext
    \/ NewerNext
    \/ UseAfterFree

Spec == Init /\ [][Next]_vars

\* A session object that is initialised, finished and initialised again, up
\* to MaxInits times, each time with the smallest pool init() accepts, and
\* with consumers that borrow and release; the clock reads as it did at
\* construction.
ReinitNext ==
    \/ \E k \in {MinBuffers} : \E addrs \in Allocations(k) :
          inits < MaxInits /\ InitOk(k, addrs, GrantedRequest, GrantedReply)
    \/ ControlNext
    \/ CaptureNext({clock})
    \/ BorrowNext
    \/ UseAfterFree

ReinitSpec == Init /\ [][ReinitNext]_vars

\* A session object that is initialised once, with any request and any
\* answer of the driver, or fails to, and is finished.
FormatNext ==
    \/ \E addrs \in Allocations(MinBuffers) : \E req \in Requests :
          \E reply \in Replies :
             inits = 0 /\ InitOk(MinBuffers, addrs, req, reply)
    \/ \E o \in InitOutcomes : \E req \in Requests : InitFail(o, req)
    \/ FinishNoThread

FormatSpec == Init /\ [][FormatNext]_vars

\* A session object that is initialised once with the smallest pool, with a
\* consumer that also hands unlock() pointers it does not hold; the clock
\* reads as it did at construction.
MisuseNext ==
    \/ \E addrs \in Allocations(MinBuffers) :
          inits = 0 /\ InitOk(MinBuffers, addrs, GrantedRequest, GrantedReply)
    \/ ControlNext
    \/ CaptureNext({clock})
    \/ BorrowNext
    \/ \E c \in Consumers : \E a \in Range(buffers) : UnlockCall(c, <<a>>)
    \/ UseAfterFree

MisuseSpec == Init /\ [][MisuseNext]_vars

\* A session that is initialised and measures the capture period, any
\* number of times; no capture thread runs meanwhile.
PeriodNext ==
    \/ \E addrs \in Allocations(MinBuffers) :
          inits = 0 /\ InitOk(MinBuffers, addrs, GrantedRequest, GrantedReply)
    \/ \E secs \in 0..MaxSeconds : PeriodCall(secs)
    \/ \E t \in PeriodTimes : \E sel \in SelectResults : \E r \in ReadResults :
          PeriodIterate(t, sel, r)

PeriodSpec == Init /\ [][PeriodNext]_vars

(* ------------------------------ fairness ------------------------------ *)
\* The steps a running capture thread takes by itself when the device keeps
\* delivering: every step but the undefined relock.
CaptureProgress ==
    \/ CaptureWhile
    \/ \E sel \in SelectResults : CaptureSelect(sel)
    \/ CaptureClaim
    \/ \E t \in ClockTimes : CaptureStamp(t)
    \/ \E r \in ReadResults : CaptureRead(r)
    \/ CapturePublish

\* A thread that is inside a member function goes on when it can: the
\* capture thread, a join() whose thread has returned, and a consumer that
\* has reached a lock().  When a thread calls a function is up to it.
FairSpec ==
    /\ Spec
    /\ WF_vars(CaptureProgress)
    /\ WF_vars(StopJoined)
    /\ WF_vars(FinishJoined)
    /\ \A c \in Consumers :
          /\ WF_vars(LockFirstNBuffers(c))
          /\ WF_vars(Unlock(c))
          /\ WF_vars(\E r \in WalkResults(c) : NewerBuffersAvailable(c, r))

(* ======================= properties of the model ====================== *)
\* the session is initialised and not finished
Live == Running /\ fd # NoFd

\* a thread has called lock() and not got the mutex yet
CaptureAtLock == capPc \in {"lock", "publish"}
ConsumerAtLock(c) == pc[c] # "idle"

\* the mutex is owned by a thread that will not unlock it: the capture
\* thread waiting for the mutex itself, or a thread that has returned
OwnerStuck == (mutex = "cap" /\ capPc = "lock") \/ mutex = "dead"

\* C3: when the capture thread finds the back buffer referenced it retries
\* without deadlock: no thread (the capture thread, a consumer in
\* lockFirstNBuffers, unlock or newerBuffersAvailable) waits for the mutex
\* while its owner will never unlock it, and a stopCapturing() never waits
\* for a capture thread that waits like that.
C3_NoThreadBlockedForever ==
    Running =>
        ~(OwnerStuck /\ (\/ CaptureAtLock
                         \/ \E c \in Consumers : ConsumerAtLock(c)))

\* C4: a release of the back buffer that is called after the capture thread
\* failed to claim that buffer (and so still holds the mutex) completes, as
\* long as the session is not finished.
C4_ReleaseCompletes ==
    \A c \in Consumers :
        (Live /\ pc[c] = "unlock" /\ mutex = "cap" /\ readerCount[Back(sorted)] > 0
              /\ Back(sorted) \in Range(refs[c]))
            ~> (pc[c] = "idle" \/ ~Live)

\* C7: a stopCapturing() called while the capture thread exists returns, with
\* the session idle again (no thread, flag cleared), unless the process ended.
C7_StopReturns ==
    (Running /\ ctlPc = "stop_join")
        ~> ((ctlPc = "idle" /\ capPc = "none" /\ ~flag) \/ ~Running)

\* the deque and the buffer the capture thread has popped, as one sequence
WithClaimed == sorted \o (IF claimed = NoBuf THEN <<>> ELSE <<claimed>>)

\* s has no entry twice
NoDuplicates(s) == \A i, j \in 1..Len(s) : i # j => s[i] # s[j]

\* C1: the buffer the capture thread has claimed (popped, then stamped and
\* filled, until it is pushed back) has reader count 0.
C1_ClaimedBufferHasNoReaders ==
    claimed # NoBuf => readerCount[claimed] = 0

\* the capture thread reads into a stamped buffer while a consumer holds
\* references to other buffers
C1_Witness ==
    /\ capPc = "read" /\ claimed # NoBuf /\ time[claimed] # Sentinel
    /\ \E c \in Consumers : Len(held[c]) = 2

\* C2 (as claimed): in a live session the deque holds exactly the buffers of
\* init, each once, at every moment.
C2_DequeAlwaysHoldsAllBuffers ==
    Live => /\ Len(sorted) = Len(buffers)
            /\ Range(sorted) = Range(buffers)
            /\ NoDuplicates(sorted)

\* C2 (amended): in a live session the deque together with the buffer the
\* capture thread has claimed holds exactly the buffers of init, each once;
\* the deque alone is one entry short from the claim to the publish.
C2_DequeAndClaimedHoldAllBuffers ==
    Live => /\ Len(WithClaimed) = Len(buffers)
            /\ Range(WithClaimed) = Range(buffers)
            /\ NoDuplicates(WithClaimed)
            /\ Len(sorted) = Len(buffers) - (IF claimed = NoBuf THEN 0 ELSE 1)

\* a buffer is claimed a second time: entries have gone round the deque
C2_Witness ==
    /\ Live /\ capPc = "stamp" /\ claimed # NoBuf
    /\ Len(sorted) = 2
    /\ \A i \in 1..Len(sorted) : time[sorted[i]] # Sentinel
    /\ time[claimed] # Sentinel

\* C5: with consumers that release only what they hold, no buffer's reader
\* count is below 0 and the assert in unlock does not fail.
C5_ReaderCountNeverNegative ==
    /\ Live => \A a \in Range(buffers) : readerCount[a] >= 0
    /\ process # "assert_readerCount"

\* a consumer releases one of two references to the same buffer while the
\* capture thread runs
C5_Witness ==
    /\ Live /\ capPc = "read"
    /\ \E c \in Consumers :
          /\ pc[c] = "unlock" /\ Len(refs[c]) = 1
          /\ Len(held[c]) = 2 /\ held[c][1] = held[c][2]
          /\ readerCount[held[c][1]] = 2

\* a lockFirstNBuffers call of consumer c returns in this step
LockFirstNReturns(c) ==
    pc[c] = "lockFirstNBuffers" /\ pc'[c] = "idle" /\ process' = "running"

\* C6: lockFirstNBuffers(n) returns the first min(n, size) entries of the
\* deque in deque order, adds 1 to the reader count of each of them, and
\* changes no other reader count, no time and not the deque.
C6_BorrowReturnsNewestPrefix ==
    [][\A c \in Consumers : LockFirstNReturns(c) =>
          LET m == IF n[c] < Len(sorted) THEN n[c] ELSE Len(sorted)
              got == SubSeq(held'[c], Len(held[c]) + 1, Len(held'[c]))
          IN  /\ Len(held'[c]) = Len(held[c]) + m
              /\ \A i \in 1..m : got[i] = sorted[i]
              /\ \A a \in Addr :
                    readerCount'[a] =
                        readerCount[a] + (IF \E i \in 1..m : sorted[i] = a THEN 1 ELSE 0)
              /\ sorted' = sorted
              /\ time' = time]_vars

\* three buffers published at three different times; the consumer got the
\* two newest, newest first, each with reader count 1
C6_Witness ==
    /\ Live /\ Len(sorted) = 3
    /\ time[sorted[3]] # Sentinel
    /\ LexLess(time[sorted[3]], time[sorted[2]])
    /\ LexLess(time[sorted[2]], time[sorted[1]])
    /\ \E c \in Consumers :
          /\ pc[c] = "idle" /\ held[c] = <<sorted[1], sorted[2]>>
    /\ readerCount[sorted[1]] = 1 /\ readerCount[sorted[2]] = 1
    /\ readerCount[sorted[3]] = 0

\* C8: right after every successful init() the deque holds exactly the
\* buffers this init allocated, each once, with no readers and the minimum
\* time.
C8_InitLeavesFreshPool ==
    [][inits' = inits + 1 =>
          /\ Len(sorted') = Len(buffers')
          /\ Range(sorted') = Range(buffers')
          /\ NoDuplicates(sorted')
          /\ \A a \in Range(sorted') : readerCount'[a] = 0 /\ time'[a] = Sentinel]_vars

\* a newerBuffersAvailable call of consumer c returns in this step
NewerReturns(c) ==
    pc[c] = "newerBuffersAvailable" /\ pc'[c] = "idle" /\ process' = "running"

\* C9: the capture thread's publish puts the buffer at the front, and a
\* newerBuffersAvailable(t') that walks a deque whose front entry is newer
\* than t' returns at least 1, also when it was called (on an initialised
\* session) before the publish and walks after it.
C9_PublishedFrontIsCounted ==
    [][/\ (capPc = "publish" /\ capPc' = "while") =>
              (sorted'[1] = claimed /\ Tail(sorted') = sorted)
       /\ \A c \in Consumers :
              (/\ NewerReturns(c) /\ Live /\ it[c] # NoBuf
               /\ LexLess(newerThan[c], time[sorted[1]]))
                  => ret'[c] >= 1]_vars

\* the length of the longest prefix of seq whose times are all after than
LongestNewerPrefix(seq, tm, than) ==
    CHOOSE k \in 0..Len(seq) :
        /\ \A i \in 1..k : LexLess(than, tm[seq[i]])
        /\ k < Len(seq) => ~LexLess(than, tm[seq[k + 1]])

\* C10: on a deque that does not change during the call,
\* newerBuffersAvailable(T) returns the length of the longest prefix of
\* entries whose (tv_sec, tv_nsec) is lexicographically after T (an entry at
\* T ends the walk), and changes no reader count, time or position.
C10_CountIsLongestNewerPrefix ==
    [][\A c \in Consumers : (NewerReturns(c) /\ ~itStale[c]) =>
          /\ ret'[c] = LongestNewerPrefix(sorted, time, newerThan[c])
          /\ sorted' = sorted /\ time' = time /\ readerCount' = readerCount]_vars

\* the walk has counted the front entry and stopped at a second entry whose
\* time is the threshold itself
C10_Witness ==
    \E c \in Consumers :
        /\ Live /\ pc[c] = "idle" /\ ret[c] = 1 /\ Len(sorted) >= 2
        /\ newerThan[c] # Sentinel
        /\ time[sorted[2]] = newerThan[c]
        /\ LexLess(newerThan[c], time[sorted[1]])

\* unlock's argument of consumer c has a pointer the consumer does not hold
\* (as often)
NotBorrowed(c) ==
    \E a \in Range(refs[c]) : Occurrences(refs[c], a) > Occurrences(held[c], a)

\* an unlock call of consumer c returns in this step
UnlockReturns(c) ==
    pc[c] = "unlock" /\ pc'[c] = "idle" /\ process' = "running"

\* C11: in a build with assert, an unlock() of a pointer that is not borrowed
\* (released before, or never borrowed, or meanwhile claimed by the capture
\* thread) never returns: it ends in the failed assert.
C11_StrayReleaseIsFatal ==
    [][\A c \in Consumers :
          (Running /\ ~ndebug /\ NotBorrowed(c)) => ~UnlockReturns(c)]_vars

\* the state finish() leaves: no capture thread, no device, no buffers
Finished ==
    capPc = "none" /\ fd = NoFd /\ buffers = <<>> /\ bufferSize = 0

\* the session has no thread, no device and no buffers: it was never
\* initialised, its init() failed, or it was finished
NothingToFinish ==
    Running /\ ctlPc = "idle" /\ capPc = "none" /\ fd = NoFd /\ buffers = <<>>

\* C12: finish() on a session that was never initialised, whose init() failed
\* or that is finished can be called, ends no process and changes nothing
\* but m_bufferSize, which it sets to 0 (nothing at all on a finished
\* session); and every finish() leaves the session finished, so that a
\* second finish() changes nothing.
C12_FinishIsIdempotent ==
    /\ [](NothingToFinish =>
            /\ ENABLED FinishNoThread
            /\ ~ENABLED (FinishNoThread /\ ~(Finished' /\ process' = "running"))
            /\ Finished => ~ENABLED (FinishNoThread /\ vars' # vars))
    /\ [][(FinishNoThread \/ FinishJoined) => Finished']_vars

\* a session that captured frames and was finished, where finish() can be
\* called again
C12_Witness ==
    /\ NothingToFinish /\ Finished /\ inits = 1
    /\ \E a \in Range(sorted) : time[a] # Sentinel

\* init() can be called: the session has no device and no capture thread
InitCallable ==
    Running /\ ctlPc = "idle" /\ fd = NoFd /\ capPc = "none"

\* C13: an init() that fails for any of the configuration errors (clock, stat,
\* not a character device, open, QUERYCAP, no capture capability, no read
\* i/o, S_FMT), for any request, returns and leaves no device open, no
\* buffers, buffer size 0 and no capture thread.
C13_FailedInitLeavesNothing ==
    InitCallable =>
        \A o \in InitOutcomes \ {"ok"} : \A req \in Requests :
            /\ ENABLED InitFail(o, req)
            /\ ~ENABLED (InitFail(o, req) /\ ~(Finished' /\ process' = "running"))

\* an init() has failed on a session that was never initialised
C13_Witness ==
    /\ InitCallable /\ Finished /\ inits = 0
    /\ request \in Requests /\ request # GrantedRequest

Max(a, b) == IF a < b THEN b ELSE a

\* C14 (as claimed): if the driver's bytesperline is below 2 * width or its
\* sizeimage is below bytesperline * height, the stride becomes 2 * width; the
\* buffer size is the stride times the height.
C14_SizeIsStrideTimesHeight ==
    Live =>
        LET tooSmall == \/ fmt.bytesperline < UInt(2 * fmt.width)
                        \/ fmt.sizeimage < UInt(fmt.bytesperline * fmt.height)
            stride == IF tooSmall THEN UInt(2 * fmt.width) ELSE fmt.bytesperline
        IN  bufferSize = UInt(stride * fmt.height)

\* C14 (amended): the stride is the larger of the driver's bytesperline and
\* 2 * width, and the buffer size is the larger of the driver's sizeimage
\* and stride * height, with the width and height the driver answered and
\* products that wrap.
C14_SizeIsAtLeastStrideTimesHeight ==
    Live =>
        LET stride == Max(fmt.bytesperline, UInt(2 * fmt.width))
        IN  bufferSize = Max(fmt.sizeimage, UInt(stride * fmt.height))

\* the driver changed the requested size, answered a stride above 2 * width
\* and a sizeimage below stride * height: the size is raised with the
\* driver's stride
C14_Witness ==
    /\ Live /\ request # <<fmt.width, fmt.height>>
    /\ fmt.bytesperline > 2 * fmt.width
    /\ fmt.sizeimage < fmt.bytesperline * fmt.height
    /\ bufferSize = fmt.bytesperline * fmt.height
    /\ bufferSize # 2 * fmt.width * fmt.height
    /\ bufferSize # 2 * request[1] * request[2]

\* the sum over all intervals of the squared deviation from the mean, times
\* the squared number of intervals
RECURSIVE SquaredDeviations(_, _, _)
SquaredDeviations(xs, size, sum) ==
    IF xs = <<>> THEN 0
    ELSE (Head(xs) * size - sum) * (Head(xs) * size - sum)
             + SquaredDeviations(Tail(xs), size, sum)

\* determineCapturePeriod has returned the result for `times`
PeriodReturned == Running /\ periodPc = "idle" /\ Len(times) >= 2

\* C15: determineCapturePeriod returns the mean of all intervals between
\* consecutive recorded times, and the square root of the sum over all
\* intervals of the squared deviation from the mean, divided by the number
\* of intervals.
C15_PeriodIsMeanAndDeviation ==
    PeriodReturned =>
        LET xs == Intervals(times)
        IN  /\ period.intervals = Len(xs)
            /\ period.meanN = Added(xs)
            /\ period.squaresN2 = SquaredDeviations(xs, Len(xs), Added(xs))

\* C16: the capture thread never owns the mutex while it is in select() or
\* in v4l2_read(): it has unlocked on every path before it waits or reads.
C16_MutexNotHeldAcrossWait ==
    Running => ~(mutex = "cap" /\ capPc \in {"select", "read"})

\* C17: the deque is only looked at under the mutex, begin() included, so a
\* newerBuffersAvailable(T) call on an initialised session returns the count
\* for the deque as it is when the call holds the mutex, also when a publish
\* came between the call and the lock().
C17_WalkSeesOneSnapshot ==
    [][\A c \in Consumers :
          (NewerReturns(c) /\ Live /\ it[c] # NoBuf) =>
              ret'[c] = LongestNewerPrefix(sorted, time, newerThan[c])]_vars

\* the times of the entries of seq do not rise from front to back
NewestFirst(seq, tm) ==
    \A i \in 1..(Len(seq) - 1) : LexLeq(tm[seq[i + 1]], tm[seq[i]])

\* C18: with a clock that does not run backwards, the times of the deque's
\* entries never rise from front to back in an initialised session, so no
\* entry of the deque is older than the back entry.
C18_DequeIsNewestFirst ==
    Live => /\ NewestFirst(sorted, time)
            /\ sorted # <<>> =>
                  \A a \in Range(sorted) : LexLeq(time[Back(sorted)], time[a])

\* two frames of different times at the front, a buffer that was never
\* filled at the back, and the capture thread about to claim it
C18_Witness ==
    /\ Live /\ Len(sorted) = 3 /\ capPc = "lock"
    /\ time[sorted[3]] = Sentinel
    /\ time[sorted[2]] # Sentinel
    /\ LexLess(time[sorted[2]], time[sorted[1]])

\* C19: the capture thread pushes a buffer to the front of the deque, and
\* goes on capturing, only after a read that returned the full frame.
C19_OnlyFullReadsPublished ==
    [][(capPc = "publish" /\ capPc' = "while" /\ process' = "running") =>
          readlen = "full"]_vars

\* C20: a round of the capture thread that finds the back entry referenced
\* reads nothing from the device and leaves the deque, every time and
\* reader count as they were and the mutex unlocked.
C20_FailedClaimChangesNothing ==
    [][(capPc = "lock" /\ capPc' = "while" /\ process' = "running") =>
          /\ sorted' = sorted /\ time' = time /\ readerCount' = readerCount
          /\ readlen' = readlen /\ claimed' = claimed
          /\ mutex' = "free"]_vars

\* C21: every entry of the deque, and so every pointer lockFirstNBuffers can
\* return, points to a Buffer that is allocated: finish() leaves no pointer
\* to a Buffer it freed; and the device is only closed and the buffers only
\* freed when no capture thread is left.
C21_NoPointerToFreedBuffer ==
    Running =>
        /\ \A i \in 1..Len(sorted) : ~Dangling(sorted[i])
        /\ fd = NoFd => capPc = "none"

\* the references to buffer a that consumers got and have not released
Outstanding(a) ==
    LET RECURSIVE Sum(_)
        Sum(S) == IF S = {} THEN 0
                  ELSE LET c == CHOOSE x \in S : TRUE
                       IN  Occurrences(held[c], a) + Sum(S \ {c})
    IN  Sum(Consumers)

\* C22: with consumers that release only what they hold, in an initialised
\* session every buffer's reader count is the number of outstanding
\* references to it, and every buffer with an outstanding reference is in
\* the deque exactly once, where unlock finds it.
C22_ReaderCountIsOutstanding ==
    Live =>
        /\ \A a \in Range(buffers) : readerCount[a] = Outstanding(a)
        /\ \A c \in Consumers : \A a \in Range(held[c]) :
               Occurrences(sorted, a) = 1

\* a consumer holds one more reference after it released another, while the
\* capture thread has a third buffer out of the deque
C22_Witness ==
    /\ Live /\ capPc = "read" /\ claimed # NoBuf /\ Len(sorted) = 2
    /\ \E c \in Consumers :
          /\ pc[c] = "idle" /\ Len(held[c]) = 1
          /\ readerCount[held[c][1]] = 1
          /\ \E a \in Range(sorted) : a # held[c][1] /\ time[a] # Sentinel

\* a stopCapturing() call returns in this step
StopReturns ==
    ctlPc = "stop_join" /\ ctlPc' = "idle" /\ process' = "running"

\* C23: when stopCapturing() returns, the capture thread has no buffer
\* claimed, every buffer is in the deque and the mutex is free.
C23_StopLeavesCompletePool ==
    [][StopReturns =>
          /\ claimed' = NoBuf
          /\ Len(sorted') = Len(buffers') /\ Range(sorted') = Range(buffers')
          /\ mutex' = "free"]_vars

====
